---- MODULE Spec2Model ----
(***************************************************************************)
(* Model of the route-finding and path-rendering core of src/app.js:       *)
(* the location resolver (findNodeByName), the breadth-first path search   *)
(* (findPath), the floor/feature visibility filter (updateFloorFilter) and *)
(* the navigation session (calculateNavigation, drawAnimatedPath, the      *)
(* animate frame callback, clearNavigationPath, setFloor), the route        *)
(* functions (segmentation, instructions, time estimate, animation         *)
(* distance and sampling) and the preprocessing of addFloorplanLayers.     *)
(*                                                                         *)
(* Strings are sequences of one-character strings, so that lower-casing,   *)
(* stripping, prefix removal and substring tests are computed as the code  *)
(* computes them.                                                          *)
(***************************************************************************)
EXTENDS Integers, Sequences, FiniteSets, TLC

VARIABLES
    navGraph,       \* [nodes: Seq([id, floor, coords]) in Object.entries order,
                    \*  edges: Seq(<<a, b>>)]
    floorplanData,  \* Seq of features [id, name, level, category] (after preprocessing;
                    \* raw properties before addFloorplanLayers has run)
    pc,             \* position of the operation being observed
    fromName,       \* findPath / findNodeByName argument
    toName,         \* findPath argument
    fromNode,       \* findPath local
    toNode,         \* findPath local
    queue,          \* findPath local: FIFO queue of partial paths (node ids)
    visited,        \* findPath local: set of visited node ids
    result,         \* value returned by the observed operation
    roomFilter,     \* filter of layer "room-extrusion" set by map.setFilter
    markerShown,    \* [store, nav]: per marker, whether element.style.display is ''
    navigationMarkers, \* Seq of [level]: markers added by addNavigationMarkers
    mapSources,     \* ids of the route sources added to the map
    highlighted,    \* ids of the features whose feature-state highlight is true
    filterArgs,     \* arguments of the updateFloorFilter call being observed
    activeBtn,      \* data-floor of the floor button carrying class "active"
    route,          \* rendered route (sources/layers added by drawAnimatedPath) or NoRoute
    animationId,    \* global animationId: a frame handle or NoHandle
    pending,        \* frame callbacks scheduled with requestAnimationFrame, not yet run
    nextHandle,     \* next handle requestAnimationFrame will return
    routeCount,     \* number of drawAnimatedPath invocations so far (closure identity)
    instructions,   \* entries shown in the nav-result panel
    drawArgs,       \* arguments of the route function being observed
    lastOp          \* last handler that ran (observation only)

dataVars == <<navGraph, floorplanData>>
pathVars == <<fromName, toName, fromNode, toNode, queue, visited, result>>
filterVars == <<roomFilter, markerShown, filterArgs>>
navVars == <<navigationMarkers, mapSources, highlighted, activeBtn, route, animationId,
             pending, nextHandle, routeCount, instructions, drawArgs, lastOp>>
vars == <<navGraph, floorplanData, pc, fromName, toName, fromNode, toNode, queue,
          visited, result, roomFilter, markerShown, navigationMarkers, mapSources,
          highlighted, filterArgs, activeBtn, route, animationId,
          pending, nextHandle, routeCount, instructions, drawArgs, lastOp>>

\* ------------------------------------------------------------------ bounds

\* Largest number of edges of a generated navigation graph.
MaxEdges == 4

\* Largest number of nodes of a graph handed to the resolver.
MaxResolverNodes == 3

\* Largest number of features handed to the resolver.
MaxResolverFeatures == 2

\* Largest number of special ids handed to updateFloorFilter.
MaxSpecialIds == 2

\* Largest number of requestAnimationFrame calls in a session.
MaxHandle == 3

\* Largest number of routes drawn in a session.
MaxRoutes == 2

\* ------------------------------------------------------------------ strings

\* JavaScript null / undefined for values that are otherwise strings.
Null == <<"null">>

UpperCase ==
    <<"A","B","C","D","E","F","G","H","I","J","K","L","M",
      "N","O","P","Q","R","S","T","U","V","W","X","Y","Z">>

LowerCase ==
    <<"a","b","c","d","e","f","g","h","i","j","k","l","m",
      "n","o","p","q","r","s","t","u","v","w","x","y","z">>

Digits == <<"0","1","2","3","4","5","6","7","8","9">>

Range(s) == {s[i] : i \in DOMAIN s}

UpperSet == Range(UpperCase)
AlnumLowerSet == Range(LowerCase) \cup Range(Digits)
DigitSet == Range(Digits)

\* The lower-case letter of each upper-case letter.
LowerOf == [c \in UpperSet |-> LowerCase[CHOOSE k \in DOMAIN UpperCase : UpperCase[k] = c]]

\* String.prototype.toLowerCase on the characters the model uses.
toLowerCase(s) ==
    [i \in 1..Len(s) |-> IF s[i] \in UpperSet THEN LowerOf[s[i]] ELSE s[i]]

IsAlnumLower(c) == c \in AlnumLowerSet

\* s.replace(/[^a-z0-9]/g, "")
stripNonAlnum(s) == SelectSeq(s, IsAlnumLower)

\* s.toLowerCase().replace(/[^a-z0-9]/g, "")
normalize(s) == stripNonAlnum(toLowerCase(s))

\* hay.includes(needle)
includes(hay, needle) ==
    \E i \in 0..(Len(hay) - Len(needle)) :
        \A k \in 1..Len(needle) : hay[i + k] = needle[k]

\* nodeId.replace(/^[gf]\d?_/, "")
stripFloorPrefix(s) ==
    IF Len(s) >= 3 /\ s[1] \in {"g", "f"} /\ s[2] \in DigitSet /\ s[3] = "_"
    THEN SubSeq(s, 4, Len(s))
    ELSE IF Len(s) >= 2 /\ s[1] \in {"g", "f"} /\ s[2] = "_"
    THEN SubSeq(s, 3, Len(s))
    ELSE s

\* JavaScript truthiness of a string-or-null value.
Truthy(x) == x /= Null /\ x /= <<>>

Min(S) == CHOOSE x \in S : \A y \in S : x <= y

\* ------------------------------------------------------------------ resolver

g_walkway_center == <<"g","_","w","a","l","k","w","a","y","_","c","e","n","t","e","r">>
f1_walkway_center == <<"f","1","_","w","a","l","k","w","a","y","_","c","e","n","t","e","r">>
f2_walkway_center == <<"f","2","_","w","a","l","k","w","a","y","_","c","e","n","t","e","r">>

\* First test of the resolver loop: bidirectional substring on the cleaned id.
DirectMatch(nodeId, nameLower) ==
    LET nodeIdClean == normalize(nodeId)
    IN  includes(nodeIdClean, nameLower) \/ includes(nameLower, nodeIdClean)

\* Second test of the resolver loop: the same on the prefix-stripped id.
PrefixMatch(nodeId, nameLower) ==
    LET nodeIdWithoutPrefix == normalize(stripFloorPrefix(nodeId))
    IN  /\ Len(nodeIdWithoutPrefix) >= 3
        /\ (includes(nameLower, nodeIdWithoutPrefix)
            \/ includes(nodeIdWithoutPrefix, nameLower))

\* One iteration of the resolver loop returns nodeId.
NodeMatches(nodeId, nameLower) ==
    DirectMatch(nodeId, nameLower) \/ PrefixMatch(nodeId, nameLower)

WalkwayForLevel_LevelPlusOne(level) ==
    IF level = 0 THEN f1_walkway_center
    ELSE IF level = 1 THEN f2_walkway_center
    ELSE IF level = 2 THEN g_walkway_center
    ELSE Null

\* The hard-coded corridor node of a floor.
WalkwayForLevel(level) ==
    IF level = 0 THEN g_walkway_center
    ELSE IF level = 1 THEN f1_walkway_center
    ELSE IF level = 2 THEN f2_walkway_center
    ELSE Null

\* floorplanData.features.find((f) => f.properties.name === name), as an index (0: none).
FindFeatureByName(name) ==
    LET idx == {i \in DOMAIN floorplanData : floorplanData[i].name = name}
    IN  IF idx = {} THEN 0 ELSE Min(idx)

\* Fallback of the resolver, after the loop found nothing.
FallbackNode(name) ==
    LET i == FindFeatureByName(name)
    IN  IF i = 0 THEN Null ELSE WalkwayForLevel(floorplanData[i].level)

findNodeByName(name) ==
    LET nameLower == normalize(name)
        nodes == navGraph.nodes
        idx == {i \in DOMAIN nodes : NodeMatches(nodes[i].id, nameLower)}
    IN  IF idx /= {} THEN nodes[Min(idx)].id ELSE FallbackNode(name)

\* ------------------------------------------------------------------ path search

NodeIdSet == {navGraph.nodes[i].id : i \in DOMAIN navGraph.nodes}

\* navGraph.nodes[nodeId]; the id stands for the identity of the node object.
NodeObj(nodeId) ==
    IF nodeId \in NodeIdSet
    THEN LET i == CHOOSE k \in DOMAIN navGraph.nodes : navGraph.nodes[k].id = nodeId
         IN  [id |-> nodeId, floor |-> navGraph.nodes[i].floor,
              coords |-> navGraph.nodes[i].coords, defined |-> TRUE]
    ELSE [id |-> nodeId, floor |-> 0, coords |-> 0, defined |-> FALSE]

NotFound == [found |-> FALSE, path |-> <<>>, nodes |-> <<>>]

Neighbor_ForwardOnly(edge, current) ==
    IF edge[1] = current THEN edge[2] ELSE Null

\* The neighbour an edge gives for the current node, or null.
Neighbor(edge, current) ==
    IF edge[1] = current THEN edge[2]
    ELSE IF edge[2] = current THEN edge[1]
    ELSE Null

\* The loop over the edges leaving after the first neighbour pushed.
RECURSIVE ExpandEdges_FirstOnly(_, _, _, _)
ExpandEdges_FirstOnly(i, path, q, v) ==
    IF i > Len(navGraph.edges) THEN [queue |-> q, visited |-> v]
    ELSE LET neighbor == Neighbor(navGraph.edges[i], path[Len(path)])
         IN  IF Truthy(neighbor) /\ neighbor \notin v
             THEN [queue |-> Append(q, Append(path, neighbor)), visited |-> v \cup {neighbor}]
             ELSE ExpandEdges_FirstOnly(i + 1, path, q, v)

\* for (const edge of navGraph.edges) { ... } from edge i on.
RECURSIVE ExpandEdges(_, _, _, _)
ExpandEdges(i, path, q, v) ==
    IF i > Len(navGraph.edges) THEN [queue |-> q, visited |-> v]
    ELSE LET neighbor == Neighbor(navGraph.edges[i], path[Len(path)])
         IN  IF Truthy(neighbor) /\ neighbor \notin v
             THEN ExpandEdges(i + 1, path, Append(q, Append(path, neighbor)),
                              v \cup {neighbor})
             ELSE ExpandEdges(i + 1, path, q, v)

FoundPath_DropLast(path) ==
    [found |-> TRUE,
     path |-> SubSeq(path, 1, Len(path) - 1),
     nodes |-> [k \in 1..(Len(path) - 1) |-> NodeObj(path[k])]]

\* return path.map((nodeId) => navGraph.nodes[nodeId])
FoundPath(path) ==
    [found |-> TRUE, path |-> path, nodes |-> [k \in 1..Len(path) |-> NodeObj(path[k])]]

\* const path = queue.shift()
Dequeue(q) == [path |-> Head(q), rest |-> Tail(q)]

\* One iteration of the while loop of findPath on (queue, visited).
BFSIteration(q, v, to) ==
    LET d == Dequeue(q)
        current == d.path[Len(d.path)]
    IN  IF current = to
        THEN [done |-> TRUE, result |-> FoundPath(d.path), queue |-> d.rest, visited |-> v]
        ELSE LET e == ExpandEdges(1, d.path, d.rest, v)
             IN  [done |-> FALSE, result |-> NotFound, queue |-> e.queue,
                  visited |-> e.visited]

\* The while loop of findPath run to its end.
RECURSIVE BFSRun(_, _, _)
BFSRun(q, v, to) ==
    IF q = <<>> THEN NotFound
    ELSE LET s == BFSIteration(q, v, to)
         IN  IF s.done THEN s.result ELSE BFSRun(s.queue, s.visited, to)

\* findPath as a function of its arguments (used by calculateNavigation).
findPath(from, to) ==
    LET f == findNodeByName(from)
        t == findNodeByName(to)
    IN  IF ~Truthy(f) \/ ~Truthy(t) THEN NotFound
        ELSE BFSRun(<<<<f>>>>, {f}, t)

\* ------------------------------------------------------------------ visibility filter

\* Values of the expressions of the room-extrusion filter, with their type.
VNum(n) == [t |-> "number", v |-> n]
VStr(s) == [t |-> "string", v |-> s]
VArr(a) == [t |-> "array", v |-> a]
VBool(b) == [t |-> "boolean", v |-> b]
VNull == [t |-> "null", v |-> 0]

\* The expressions updateFloorFilter builds.
Const(val) == [op |-> "const", val |-> val]
Literal(a) == [op |-> "literal", val |-> VArr(a)]
Get(prop) == [op |-> "get", prop |-> prop]
FeatureId == [op |-> "id"]
In(needle, haystack) == [op |-> "in", args |-> <<needle, haystack>>]
Eq(a, b) == [op |-> "==", args |-> <<a, b>>]
Neq(a, b) == [op |-> "!=", args |-> <<a, b>>]
Not(a) == [op |-> "!", args |-> <<a>>]
AnyOf(args) == [op |-> "any", args |-> args]
AllOf(args) == [op |-> "all", args |-> args]

\* map.setFilter(layer, null): no filter, every feature is rendered.
NullFilter == [op |-> "null"]

str_Elevator == <<"E","l","e","v","a","t","o","r">>

\* ["get", prop] on a feature; an absent name is null.
GetProp(f, prop) ==
    CASE prop = "level" -> VNum(f.level)
      [] prop = "category" -> VStr(f.category)
      [] prop = "name" -> IF f.name = Null THEN VNull ELSE VStr(f.name)

ValEq(a, b) == a.t = b.t /\ a.v = b.v

\* ["in", needle, haystack]: element of an array, substring of a string, false on
\* an absent or empty haystack.
InValue(needle, hay) ==
    CASE hay.t = "null" -> FALSE
      [] hay.t = "array" ->
            needle.t = "number" /\ \E i \in DOMAIN hay.v : hay.v[i] = needle.v
      [] hay.t = "string" ->
            hay.v /= <<>> /\ needle.t = "string" /\ includes(hay.v, needle.v)

\* Value of a filter expression on a feature, as the renderer evaluates it.
RECURSIVE Eval(_, _)
Eval(e, f) ==
    CASE e.op = "const" -> e.val
      [] e.op = "literal" -> e.val
      [] e.op = "get" -> GetProp(f, e.prop)
      [] e.op = "id" -> VNum(f.id)
      [] e.op = "in" -> VBool(InValue(Eval(e.args[1], f), Eval(e.args[2], f)))
      [] e.op = "==" -> VBool(ValEq(Eval(e.args[1], f), Eval(e.args[2], f)))
      [] e.op = "!=" -> VBool(~ValEq(Eval(e.args[1], f), Eval(e.args[2], f)))
      [] e.op = "!" -> VBool(~Eval(e.args[1], f).v)
      [] e.op = "any" -> VBool(\E i \in DOMAIN e.args : Eval(e.args[i], f).v)
      [] e.op = "all" -> VBool(\A i \in DOMAIN e.args : Eval(e.args[i], f).v)

\* The layer renders feature f under the given filter.
Shows(filter, f) == IF filter = NullFilter THEN TRUE ELSE Eval(filter, f).v

\* The filter built with the special-id clause pushed onto finalFilter instead of
\* visibilityGroup.
BuildFilter_SpecialInAll(activeFloors, specialIds, hideElevator) ==
    LET visibilityGroup ==
            <<In(Get("level"), Literal(activeFloors)), Eq(Get("level"), Const(VNum(-1)))>>
        hide ==
            IF hideElevator
            THEN <<Neq(Get("category"), Const(VStr("elevator"))),
                   Not(In(Const(VStr(str_Elevator)), Get("name")))>>
            ELSE <<>>
        special ==
            IF Len(specialIds) > 0 THEN <<In(FeatureId, Literal(specialIds))>> ELSE <<>>
    IN  AllOf(<<AnyOf(visibilityGroup)>> \o hide \o special)

\* finalFilter as it stands when map.setFilter is called (visibilityGroup is shared,
\* so the clause pushed last is part of it).
BuildFilter(activeFloors, specialIds, hideElevator) ==
    LET special ==
            IF Len(specialIds) > 0 THEN <<In(FeatureId, Literal(specialIds))>> ELSE <<>>
        visibilityGroup ==
            <<In(Get("level"), Literal(activeFloors)), Eq(Get("level"), Const(VNum(-1)))>>
            \o special
        hide ==
            IF hideElevator
            THEN <<Neq(Get("category"), Const(VStr("elevator"))),
                   Not(In(Const(VStr(str_Elevator)), Get("name")))>>
            ELSE <<>>
    IN  AllOf(<<AnyOf(visibilityGroup)>> \o hide)

\* addStoreLabels keeps a feature: it is labelled with a marker.
Labelled(f) ==
    /\ f.category \notin {"outline", "building", "wall"}
    /\ f.name /= Null /\ f.name /= <<>>
    /\ f.name /= <<"o","b","j","e","c","t">>
    /\ f.name /= <<"w","a","l","l","_","e","x","t","r","u","d","e">>

\* storeMarkers: one [level, id] per labelled feature, in feature order.
storeMarkers ==
    LET kept == SelectSeq(floorplanData, Labelled)
    IN  [i \in 1..Len(kept) |-> [level |-> kept[i].level, id |-> kept[i].id, hasId |-> TRUE]]

\* A navigation marker as updateFloorFilter sees it (it carries no id).
NavMarker(level) == [level |-> level, id |-> 0, hasId |-> FALSE]

SeqContains(s, x) == \E i \in DOMAIN s : s[i] = x

\* isVisible of one marker in the forEach of updateFloorFilter.
MarkerVisible(item, activeFloors, specialIds, hideElevator) ==
    \/ SeqContains(activeFloors, item.level)
    \/ (item.level = -1 /\ ~hideElevator)
    \/ (item.hasId /\ item.id /= 0 /\ SeqContains(specialIds, item.id))

\* The floors argument: a number n (v is <<n>>), or an array of numbers.
Scalar(n) == [isArray |-> FALSE, v |-> <<n>>]
Array(a) == [isArray |-> TRUE, v |-> a]

\* updateFloorFilter(floors, specialIds, hideElevator) with navMarkers the current
\* navigationMarkers: the filter set on the layer and the display of every marker.
updateFloorFilter(floors, specialIds, hideElevator, navMarkers) ==
    LET activeFloors == floors.v
        isAll == ~floors.isArray /\ floors.v[1] = -1
    IN  IF isAll
        THEN [filter |-> NullFilter,
              shown |-> [store |-> [i \in DOMAIN storeMarkers |-> TRUE],
                         nav |-> [i \in DOMAIN navMarkers |-> TRUE]]]
        ELSE [filter |-> BuildFilter(activeFloors, specialIds, hideElevator),
              shown |->
                [store |-> [i \in DOMAIN storeMarkers |->
                              MarkerVisible(storeMarkers[i], activeFloors, specialIds,
                                            hideElevator)],
                 nav |-> [i \in DOMAIN navMarkers |->
                              MarkerVisible(NavMarker(navMarkers[i].level), activeFloors,
                                            specialIds, hideElevator)]]]

\* ------------------------------------------------------------------ values outside a specification

NoRoute == [shown |-> FALSE, n |-> 0, fromId |-> 0, toId |-> 0, fromLevel |-> 0, nodes |-> <<>>]

\* let animationId = null (frame handles are positive).
NoHandle == 0
NoFilterArgs == [floors |-> Scalar(0), specialIds |-> <<>>, hideElevator |-> FALSE]
NoDrawArgs == [pathNodes |-> <<>>]

IdlePath ==
    /\ fromName = Null /\ toName = Null /\ fromNode = Null /\ toNode = Null
    /\ queue = <<>> /\ visited = {} /\ result = NotFound

\* addFloorplanLayers ends with updateFloorFilter(currentFloor), currentFloor being 0.
IdleFilter ==
    LET u == updateFloorFilter(Scalar(0), <<>>, FALSE, <<>>)
    IN  roomFilter = u.filter /\ markerShown = u.shown /\ filterArgs = NoFilterArgs

IdleNav ==
    /\ navigationMarkers = <<>> /\ mapSources = {} /\ highlighted = {}
    /\ activeBtn = 0 /\ route = NoRoute /\ animationId = NoHandle /\ pending = {}
    /\ nextHandle = 1 /\ routeCount = 0 /\ lastOp = "init"
    /\ instructions = <<>>

IdleDraw == drawArgs = NoDrawArgs

\* ------------------------------------------------------------------ findPath, step by step

g_a == <<"g","_","a">>
g_b == <<"g","_","b">>
f1_a == <<"f","1","_","a">>
f1_b == <<"f","1","_","b">>

\* Nodes of the generated graphs, in Object.entries order.
PathNodes ==
    <<[id |-> g_a, floor |-> 0, coords |-> 0], [id |-> g_b, floor |-> 0, coords |-> 3],
      [id |-> f1_a, floor |-> 1, coords |-> 6], [id |-> f1_b, floor |-> 1, coords |-> 9]>>

\* Candidate edges (both orientations occur, and self-loops).
EdgePool ==
    <<<<g_a, g_b>>, <<g_b, f1_a>>, <<f1_a, f1_b>>, <<f1_b, g_a>>, <<f1_a, g_a>>,
      <<f1_b, g_b>>, <<g_a, g_a>>, <<f1_a, f1_a>>, <<g_b, g_b>>, <<f1_b, f1_b>>>>

\* Location names handed to findPath: one per node, and one that resolves to nothing.
PathNames ==
    {<<"G"," ","A">>, <<"G"," ","B">>, <<"F","1"," ","A">>, <<"F","1"," ","B">>,
     <<"Z","e","d">>}

\* The entries of s at the indices in S, in order.
Pick(s, S) ==
    LET idx == SelectSeq([i \in 1..Len(s) |-> i], LAMBDA i : i \in S)
    IN  [k \in 1..Len(idx) |-> s[idx[k]]]

InitPath ==
    /\ \E S \in SUBSET (1..Len(EdgePool)) :
          /\ Cardinality(S) <= MaxEdges
          /\ navGraph = [nodes |-> PathNodes, edges |-> Pick(EdgePool, S)]
    /\ floorplanData = <<>>
    /\ pc = "idle"
    /\ IdlePath /\ IdleFilter /\ IdleNav /\ IdleDraw

\* findPath up to the start of the while loop.
FindPathCall ==
    /\ pc = "idle"
    /\ \E a \in PathNames, b \in PathNames :
          LET f == findNodeByName(a)
              t == findNodeByName(b)
          IN  /\ fromName' = a /\ toName' = b
              /\ fromNode' = f /\ toNode' = t
              /\ IF ~Truthy(f) \/ ~Truthy(t)
                 THEN /\ pc' = "done"
                      /\ queue' = <<>> /\ visited' = {}
                 ELSE /\ pc' = "search"
                      /\ queue' = <<<<f>>>> /\ visited' = {f}
              /\ result' = NotFound
    /\ UNCHANGED <<dataVars, filterVars, navVars>>

\* One evaluation of the while condition and, when it holds, one iteration.
FindPathLoop ==
    /\ pc = "search"
    /\ IF queue = <<>>
       THEN /\ pc' = "done" /\ result' = NotFound
            /\ UNCHANGED <<queue, visited>>
       ELSE LET s == BFSIteration(queue, visited, toNode)
            IN  /\ queue' = s.queue /\ visited' = s.visited
                /\ result' = s.result
                /\ pc' = IF s.done THEN "done" ELSE "search"
    /\ UNCHANGED <<fromName, toName, fromNode, toNode, dataVars, filterVars, navVars>>

\* The caller takes the result; the locals are gone.
FindPathReturn ==
    /\ pc = "done"
    /\ pc' = "idle"
    /\ fromName' = Null /\ toName' = Null /\ fromNode' = Null /\ toNode' = Null
    /\ queue' = <<>> /\ visited' = {} /\ result' = NotFound
    /\ UNCHANGED <<dataVars, filterVars, navVars>>

NextPath == FindPathCall \/ FindPathLoop \/ FindPathReturn

\* The loop of findPath is synchronous code: it keeps running until it returns.
SpecPath == InitPath /\ [][NextPath]_vars /\ WF_vars(FindPathLoop)

\* ------------------------------------------------------------------ claims on findPath

\* Some edge of navGraph.edges joins a and b, in either orientation.
Joined(a, b) ==
    \E i \in DOMAIN navGraph.edges :
        \/ navGraph.edges[i] = <<a, b>>
        \/ navGraph.edges[i] = <<b, a>>

\* Nodes within k edges of a in the undirected graph (exhaustive search).
RECURSIVE Ball(_, _)
Ball(a, k) ==
    IF k = 0 THEN {a}
    ELSE LET B == Ball(a, k - 1)
         IN  B \cup {n \in NodeIdSet : \E m \in B : Joined(m, n)}

Connected(a, b) == b \in Ball(a, Cardinality(NodeIdSet))

\* Least number of edges of a walk from a to b (b connected to a).
Distance(a, b) == Min({k \in 0..Cardinality(NodeIdSet) : b \in Ball(a, k)})

Returned == pc = "done"

\* C1: a returned path starts at the node fromName resolves to, ends at the node
\* toName resolves to, and each pair of consecutive path nodes is joined by an edge
\* of navGraph.edges in either orientation.
C1_PathEndpointsAndEdges ==
    (Returned /\ result.found) =>
        LET p == result.nodes
        IN  /\ Len(p) >= 1
            /\ p[1].id = findNodeByName(fromName)
            /\ p[Len(p)].id = findNodeByName(toName)
            /\ \A k \in 1..(Len(p) - 1) : Joined(p[k].id, p[k + 1].id)

\* A path of at least two edges has been returned.
C1_Witness == Returned /\ result.found /\ Len(result.nodes) >= 3

\* C2: the number of edges of a returned path equals the least edge count of any
\* walk between the two resolved nodes, and the path repeats no node.
C2_ShortestSimplePath ==
    (Returned /\ result.found) =>
        LET p == result.nodes
        IN  /\ Len(p) - 1 = Distance(fromNode, toNode)
            /\ \A i, j \in 1..Len(p) : i /= j => p[i].id /= p[j].id

\* A shortest path of three edges has been returned in a graph with a cycle through
\* its origin or a longer alternative.
C2_Witness ==
    /\ Returned /\ result.found
    /\ Len(result.nodes) = 3
    /\ Len(navGraph.edges) = 4

\* The search was entered and has returned.
SearchReturned == Returned /\ Truthy(fromNode) /\ Truthy(toNode)

\* C3: the search terminates on every graph (cycles and self-loops included); with
\* both names resolved it returns not-found exactly when the destination is outside
\* the origin's connected component, and then only once the queue is exhausted.
C3_TerminatesAndNullIffUnreachable ==
    /\ [](SearchReturned =>
            /\ result.found <=> Connected(fromNode, toNode)
            /\ ~result.found => queue = <<>>)
    /\ ((pc = "search") ~> (pc = "done"))

\* Not-found has been returned for an origin that lies on a cycle and has a self-loop.
C3_Witness ==
    /\ SearchReturned /\ ~result.found
    /\ Joined(fromNode, fromNode)
    /\ Cardinality(visited) >= 3

\* ------------------------------------------------------------------ findNodeByName on generated data

g_shop == <<"g","_","s","h","o","p">>
g_shop_2 == <<"g","_","s","h","o","p","_","2">>
f1_shop == <<"f","1","_","s","h","o","p">>
g_cafeteria == <<"g","_","c","a","f","e","t","e","r","i","a">>

name_G_Shop == <<"G"," ","S","h","o","p">>
name_F1_Shop == <<"F","1"," ","S","h","o","p">>
name_Cafe == <<"C","a","f","e">>
name_Atrium == <<"A","t","r","i","u","m">>
name_Kiosk == <<"K","i","o","s","k">>

ResolverIds == {g_shop, g_shop_2, f1_shop, g_cafeteria}

ResolverNames == {name_G_Shop, name_F1_Shop, name_Cafe, name_Atrium, name_Kiosk}

\* Names and levels of the features handed to the resolver.
ResolverFeatureNames == {name_Atrium, name_Kiosk}
ResolverLevels == {-1, 0, 1, 2}

\* Sequences of at most n distinct elements of S.
DistinctSeqs(S, n) ==
    UNION {{s \in [1..k -> S] : \A i, j \in 1..k : i /= j => s[i] /= s[j]} : k \in 0..n}

\* Sequences of at most n elements of S.
SeqsUpTo(S, n) == UNION {[1..k -> S] : k \in 0..n}

\* A feature list whose ids are the positions, as addFloorplanLayers assigns them.
FeaturesOf(s) ==
    [i \in 1..Len(s) |->
        [id |-> i - 1, name |-> s[i][1], level |-> s[i][2], category |-> "store"]]

InitResolve ==
    /\ \E ids \in DistinctSeqs(ResolverIds, MaxResolverNodes) :
          navGraph = [nodes |-> [i \in 1..Len(ids) |->
                                    [id |-> ids[i], floor |-> 0, coords |-> 3 * i]],
                      edges |-> <<>>]
    /\ \E fs \in SeqsUpTo(ResolverFeatureNames \X ResolverLevels, MaxResolverFeatures) :
          floorplanData = FeaturesOf(fs)
    /\ pc = "idle"
    /\ IdlePath /\ IdleFilter /\ IdleNav /\ IdleDraw

\* A call of findNodeByName(name); fromNode receives the value returned.
ResolveCall ==
    /\ pc = "idle"
    /\ \E name \in ResolverNames :
          /\ fromName' = name
          /\ fromNode' = findNodeByName(name)
    /\ pc' = "done"
    /\ UNCHANGED <<toName, toNode, queue, visited, result, dataVars, filterVars, navVars>>

ResolveReturn ==
    /\ pc = "done"
    /\ pc' = "idle"
    /\ fromName' = Null /\ fromNode' = Null
    /\ UNCHANGED <<toName, toNode, queue, visited, result, dataVars, filterVars, navVars>>

\* A call of findPath(a, b) on two names that features carry; result receives
\* the value returned.
FindPathOnFeatureNames ==
    /\ pc = "idle"
    /\ \E a \in ResolverFeatureNames, b \in ResolverFeatureNames :
          /\ fromName' = a /\ toName' = b
          /\ fromNode' = findNodeByName(a) /\ toNode' = findNodeByName(b)
          /\ result' = findPath(a, b)
    /\ pc' = "searched"
    /\ UNCHANGED <<queue, visited, dataVars, filterVars, navVars>>

FindPathOnFeatureNamesReturn ==
    /\ pc = "searched"
    /\ pc' = "idle"
    /\ fromName' = Null /\ toName' = Null /\ fromNode' = Null /\ toNode' = Null
    /\ result' = NotFound
    /\ UNCHANGED <<queue, visited, dataVars, filterVars, navVars>>

NextResolve ==
    \/ ResolveCall \/ ResolveReturn
    \/ FindPathOnFeatureNames \/ FindPathOnFeatureNamesReturn

SpecResolve == InitResolve /\ [][NextResolve]_vars

\* ------------------------------------------------------------------ claims on findNodeByName

\* C4: resolving a name whose normalization equals that of a node id of the graph
\* returns that node id, whatever the other node ids and their order.
C4_ExactNameResolvesToItsNode ==
    Returned =>
        \A n \in NodeIdSet : normalize(fromName) = normalize(n) => fromNode = n

\* Indices of the nodes that match the name by the direct substring test.
DirectlyMatching(name) ==
    {i \in DOMAIN navGraph.nodes : DirectMatch(navGraph.nodes[i].id, normalize(name))}

\* C5: whenever some node of the graph matches the name directly, the node returned
\* is the first directly matching node in iteration order.
C5_DirectMatchBeforePrefixMatch ==
    (Returned /\ DirectlyMatching(fromName) /= {}) =>
        fromNode = navGraph.nodes[Min(DirectlyMatching(fromName))].id

\* No node of the graph matches the name by either test.
NoFuzzyMatch(name) ==
    \A i \in DOMAIN navGraph.nodes : ~NodeMatches(navGraph.nodes[i].id, normalize(name))

\* Indices of the features whose name is exactly the given name.
NamedExactly(name) == {i \in DOMAIN floorplanData : floorplanData[i].name = name}

\* C6: when no node matches by either test, the resolver returns the walkway centre
\* of the floor of the first feature named exactly like the input (0, 1, 2), and
\* not-found when there is no such feature or its level is none of 0, 1, 2.
C6_FallbackToWalkwayCenter ==
    (Returned /\ NoFuzzyMatch(fromName)) =>
        IF NamedExactly(fromName) = {} THEN fromNode = Null
        ELSE LET level == floorplanData[Min(NamedExactly(fromName))].level
             IN  /\ level = 0 => fromNode = g_walkway_center
                 /\ level = 1 => fromNode = f1_walkway_center
                 /\ level = 2 => fromNode = f2_walkway_center
                 /\ level \notin {0, 1, 2} => fromNode = Null

\* The fallback has returned the first-floor walkway for a name carried by two
\* features of different levels, in a graph that has nodes.
C6_Witness ==
    /\ Returned /\ NoFuzzyMatch(fromName)
    /\ navGraph.nodes /= <<>>
    /\ Cardinality(NamedExactly(fromName)) = 2
    /\ floorplanData[2].level = 2
    /\ fromNode = f1_walkway_center

\* C20: findNodeByName returns null or a key of navGraph.nodes, and every element of
\* a path findPath returns is a defined node of the graph, also when the names are
\* resolved by the walkway-center fallback and fall back to the same identifier.
C20_ResolvedNodesAreGraphNodes ==
    /\ pc = "done" => (fromNode = Null \/ fromNode \in NodeIdSet)
    /\ (pc = "searched" /\ result.found) =>
          \A k \in DOMAIN result.nodes : result.nodes[k].defined

\* ------------------------------------------------------------------ updateFloorFilter on generated arguments

name_Book_Nook == <<"B","o","o","k"," ","N","o","o","k">>
name_Lift == <<"L","i","f","t">>
name_Elevator_Lobby == <<"E","l","e","v","a","t","o","r"," ","L","o","b","b","y">>
name_wall_extrude == <<"w","a","l","l","_","e","x","t","r","u","d","e">>

\* A building: rooms on three floors, an elevator room on the ground floor, the
\* elevator shaft and a wall on level -1, a room named after the elevator, and a
\* corridor without a name. Ids are the positions (addFloorplanLayers).
Building ==
    <<[id |-> 0, name |-> name_Atrium, level |-> 0, category |-> "store"],
      [id |-> 1, name |-> name_Cafe, level |-> 1, category |-> "food"],
      [id |-> 2, name |-> name_Book_Nook, level |-> 2, category |-> "store"],
      [id |-> 3, name |-> name_Lift, level |-> 0, category |-> "elevator"],
      [id |-> 4, name |-> str_Elevator, level |-> -1, category |-> "elevator"],
      [id |-> 5, name |-> name_Elevator_Lobby, level |-> 1, category |-> "common"],
      [id |-> 6, name |-> name_wall_extrude, level |-> -1, category |-> "wall"],
      [id |-> 7, name |-> Null, level |-> 2, category |-> "corridor"]>>

BuildingIds == {Building[i].id : i \in DOMAIN Building}

\* Floor selections: a floor number (-1 is "all") or a one-floor array.
FloorSelections ==
    {Scalar(n) : n \in {-1, 0, 1, 2}} \cup {Array(<<n>>) : n \in {0, 1, 2}}

InitFilter ==
    /\ navGraph = [nodes |-> <<>>, edges |-> <<>>]
    /\ floorplanData = Building
    /\ pc = "idle"
    /\ IdlePath /\ IdleNav /\ IdleDraw
    /\ LET u == updateFloorFilter(Scalar(0), <<>>, FALSE, <<>>)
       IN  roomFilter = u.filter /\ markerShown = u.shown
    /\ \E floors \in FloorSelections, specialIds \in SeqsUpTo(BuildingIds, MaxSpecialIds),
          hideElevator \in BOOLEAN :
          filterArgs = [floors |-> floors, specialIds |-> specialIds,
                        hideElevator |-> hideElevator]

\* The call updateFloorFilter(floors, specialIds, hideElevator) on filterArgs.
UpdateFloorFilterCall ==
    /\ pc = "idle"
    /\ LET u == updateFloorFilter(filterArgs.floors, filterArgs.specialIds,
                                  filterArgs.hideElevator, navigationMarkers)
       IN  /\ roomFilter' = u.filter
           /\ markerShown' = u.shown
    /\ pc' = "done"
    /\ UNCHANGED <<filterArgs, dataVars, pathVars, navVars>>

NextFilter == UpdateFloorFilterCall

SpecFilter == InitFilter /\ [][NextFilter]_vars

\* ------------------------------------------------------------------ claims on updateFloorFilter

Features == {floorplanData[i] : i \in DOMAIN floorplanData}

\* The floors of the observed call, and whether it selects "all".
ArgFloors == Range(filterArgs.floors.v)
ArgIsAll == ~filterArgs.floors.isArray /\ filterArgs.floors.v = <<-1>>
ArgSpecial == Range(filterArgs.specialIds)

\* The feature is elevator-categorised or carries "Elevator" in its name.
IsElevator(f) ==
    \/ f.category = "elevator"
    \/ (f.name /= Null /\ includes(f.name, str_Elevator))

\* C9 as stated: with a selection other than "all", the filter shows a feature iff
\* its level is active, or its level is -1 and not (elevator category and
\* hideElevator), or its id is in alwaysVisibleIds.
C9_VisibilityRuleAsStated ==
    (Returned /\ ~ArgIsAll) =>
        \A f \in Features :
            Shows(roomFilter, f) <=>
                \/ f.level \in ArgFloors
                \/ (f.level = -1 /\ ~(f.category = "elevator" /\ filterArgs.hideElevator))
                \/ f.id \in ArgSpecial

\* C9 amended: with a selection other than "all", the filter shows a feature iff
\* (its level is active, or its level is -1, or its id is in alwaysVisibleIds) and
\* not (hideElevator and the feature is elevator-categorised or named "...Elevator...").
C9_VisibilityRule ==
    (Returned /\ ~ArgIsAll) =>
        \A f \in Features :
            Shows(roomFilter, f) <=>
                /\ (f.level \in ArgFloors \/ f.level = -1 \/ f.id \in ArgSpecial)
                /\ ~(filterArgs.hideElevator /\ IsElevator(f))

\* With hideElevator set and floor 0 active, a special room of floor 2 is shown and
\* a special elevator room is not.
C9_Witness ==
    /\ Returned /\ filterArgs.hideElevator
    /\ ArgFloors = {0} /\ ArgSpecial = {2, 3}
    /\ Shows(roomFilter, Building[3])
    /\ ~Shows(roomFilter, Building[4])

\* ------------------------------------------------------------------ route rendering

RouteSource(floor) == <<"nav-route", floor>>
VerticalSource == <<"nav-vertical", 0>>
AvatarBodySource == <<"nav-avatar-body", 0>>
AvatarHeadSource == <<"nav-avatar-head", 0>>

\* The sources clearNavigationPath removes (those of its list that are ever added).
ClearedSources ==
    {VerticalSource, AvatarBodySource, AvatarHeadSource}
    \cup {RouteSource(floor) : floor \in {0, 1, 2}}

\* Floors that are keys of segments for a path: 0, 1, 2 and every floor pushed to.
SegmentFloors(pathNodes) ==
    {0, 1, 2} \cup ({pathNodes[i].floor : i \in DOMAIN pathNodes} \ {-1})

\* The forEach of drawAnimatedPath over pathNodes from node i on; a node's id stands
\* for its coords.
RECURSIVE SegmentFrom(_, _, _)
SegmentFrom(i, pathNodes, acc) ==
    IF i > Len(pathNodes) THEN acc
    ELSE LET node == pathNodes[i]
             floor == node.floor
             emit == floor /= -1 /\ acc.lastTrackedFloor /= -1
                     /\ floor /= acc.lastTrackedFloor
             shaftCoords == IF Truthy(acc.potentialElevatorCoords)
                            THEN acc.potentialElevatorCoords ELSE node.id
             transitions ==
                IF emit
                THEN Append(acc.verticalTransitions,
                            [coords |-> shaftCoords, from |-> acc.lastTrackedFloor,
                             to |-> floor])
                ELSE acc.verticalTransitions
             potential == IF floor = -1 THEN node.id
                          ELSE IF emit THEN Null ELSE acc.potentialElevatorCoords
             last == IF floor = -1 THEN acc.lastTrackedFloor ELSE floor
             segments ==
                IF floor = -1
                THEN IF last /= -1
                     THEN [acc.segments EXCEPT ![last] = Append(@, node.id)]
                     ELSE acc.segments
                ELSE [acc.segments EXCEPT ![floor] = Append(@, node.id)]
         IN  SegmentFrom(i + 1, pathNodes,
                         [segments |-> segments, verticalTransitions |-> transitions,
                          lastTrackedFloor |-> last, potentialElevatorCoords |-> potential])

\* The segmentation started as if the ground floor had been seen already.
SegmentPath_FromGround(pathNodes) ==
    SegmentFrom(1, pathNodes,
                [segments |-> [f \in SegmentFloors(pathNodes) |-> <<>>],
                 verticalTransitions |-> <<>>,
                 lastTrackedFloor |-> 0, potentialElevatorCoords |-> Null])

\* segments and verticalTransitions of drawAnimatedPath for a path.
SegmentPath(pathNodes) ==
    SegmentFrom(1, pathNodes,
                [segments |-> [f \in SegmentFloors(pathNodes) |-> <<>>],
                 verticalTransitions |-> <<>>,
                 lastTrackedFloor |-> -1, potentialElevatorCoords |-> Null])

\* Floors whose segment gets a source and a layer (at least two coordinates).
RouteFloors(pathNodes) ==
    LET seg == SegmentPath(pathNodes).segments
    IN  {f \in DOMAIN seg : Len(seg[f]) >= 2}

\* The sources drawAnimatedPath adds for a path, when none of them exists yet.
RouteSources(pathNodes) ==
    {RouteSource(f) : f \in RouteFloors(pathNodes)}
    \cup (IF Len(SegmentPath(pathNodes).verticalTransitions) > 0
          THEN {VerticalSource} ELSE {})
    \cup {AvatarBodySource, AvatarHeadSource}

\* map.addSource throws on an id that exists: a per-floor source left on the map.
SourceClash(pathNodes, sources) ==
    \E f \in RouteFloors(pathNodes) : RouteSource(f) \in sources

\* The per-floor sources added, in ascending key order, before addSource throws.
SourcesBeforeClash(pathNodes, sources) ==
    {RouteSource(f) : f \in {g \in RouteFloors(pathNodes) :
        \A h \in RouteFloors(pathNodes) : h <= g => RouteSource(h) \notin sources}}

\* The nodes addNavigationMarkers marks: start, end, and the node before each change
\* of floor between consecutive nodes.
MarkedNodes(pathNodes) ==
    LET changes == SelectSeq([i \in 1..(Len(pathNodes) - 1) |-> i],
                             LAMBDA i : pathNodes[i + 1].floor /= pathNodes[i].floor)
    IN  <<pathNodes[1], pathNodes[Len(pathNodes)]>>
        \o [k \in 1..Len(changes) |-> pathNodes[changes[k]]]

\* navigationMarkers after addNavigationMarkers on an emptied list.
NavMarkersFor(pathNodes) ==
    LET marked == MarkedNodes(pathNodes)
    IN  [k \in 1..Len(marked) |->
            [level |-> IF marked[k].floor = -1 THEN 0 ELSE marked[k].floor]]

\* cancelAnimationFrame(handle) on the scheduled callbacks.
Cancel(callbacks, handle) == {cb \in callbacks : cb.handle /= handle}

\* The scheduled callbacks after the "if (animationId) cancelAnimationFrame(animationId)"
\* of drawAnimatedPath and clearNavigationPath.
CancelCurrent(callbacks, id) ==
    IF id /= NoHandle THEN Cancel(callbacks, id) ELSE callbacks

\* ------------------------------------------------------------------ distance, time, instructions

Abs(n) == IF n < 0 THEN -n ELSE n

\* Math.ceil(a / b) for a >= 0 and b > 0.
CeilDiv(a, b) == (a + b - 1) \div b

RECURSIVE SumSeq(_)
SumSeq(s) == IF s = <<>> THEN 0 ELSE Head(s) + SumSeq(Tail(s))

\* Seconds added per floor between the levels of the two endpoint features.
FloorPenaltySeconds == 45

\* Metres of animation distance per floor of difference between two nodes.
MetresPerFloor == 4

\* Milliseconds of one run of the avatar along the path.
LoopMs == 8000

\* calculateDistance(coord1, coord2) * 1000: metres between two points. Coordinates
\* are metres along one axis, on which the great-circle distance is the difference.
calculateDistance(coord1, coord2) == Abs(coord2 - coord1)

\* calculateTotalDistance(coords), in metres.
calculateTotalDistance(coords) ==
    SumSeq([i \in 1..(Len(coords) - 1) |-> calculateDistance(coords[i], coords[i + 1])])

\* pathNodes.map(node => node.coords)
pathCoordsOf(pathNodes) == [i \in 1..Len(pathNodes) |-> pathNodes[i].coords]

\* The estimate with one penalty per floor change met along the path.
walkingTime_PerTransition(pathNodes, fromLevel, toLevel) ==
    LET distance == calculateTotalDistance(pathCoordsOf(pathNodes))
        concrete == SelectSeq(pathNodes, LAMBDA n : n.floor /= -1)
        changes == Cardinality({i \in 1..(Len(concrete) - 1) :
                                    concrete[i].floor /= concrete[i + 1].floor})
    IN  CeilDiv(10 * distance + 14 * changes * FloorPenaltySeconds, 14)

\* walkingTime of calculateNavigation: Math.ceil(distance / 1.4 + floorChangePenalty),
\* computed on the common denominator 14.
walkingTime(pathNodes, fromLevel, toLevel) ==
    LET distance == calculateTotalDistance(pathCoordsOf(pathNodes))
        floorChangePenalty == Abs(toLevel - fromLevel) * FloorPenaltySeconds
    IN  CeilDiv(10 * distance + 14 * floorChangePenalty, 14)

\* The "Take Elevator" entries pushed by the forEach of calculateNavigation from
\* node i on, currentPathLevel being the level tracked so far.
RECURSIVE ElevatorSteps(_, _, _)
ElevatorSteps(i, pathNodes, currentPathLevel) ==
    IF i > Len(pathNodes) THEN <<>>
    ELSE LET node == pathNodes[i]
         IN  IF node.floor /= -1 /\ node.floor /= currentPathLevel
             THEN <<[kind |-> "elevator",
                     text |-> <<IF node.floor > currentPathLevel THEN "up" ELSE "down",
                                node.floor>>]>>
                  \o ElevatorSteps(i + 1, pathNodes, node.floor)
             ELSE ElevatorSteps(i + 1, pathNodes, currentPathLevel)

\* The instruction list calculateNavigation hands to displayNavigationResult.
Instructions(from, to, fromLevel, toLevel, pathNodes) ==
    <<[kind |-> "start", text |-> <<from, fromLevel>>]>>
    \o ElevatorSteps(1, pathNodes, fromLevel)
    \o <<[kind |-> "arrive", text |-> <<to>>],
         [kind |-> "time",
          text |-> <<CeilDiv(walkingTime(pathNodes, fromLevel, toLevel), 60),
                     calculateTotalDistance(pathCoordsOf(pathNodes))>>]>>

\* Length of the leg from node a to node b in the animation distance model, split
\* into its part per floor of difference and its horizontal part.
LegVertical(a, b) ==
    LET floorDiff == Abs(a.floor - b.floor)
    IN  IF floorDiff > 0 THEN floorDiff * MetresPerFloor ELSE 0

LegHorizontal(a, b) ==
    IF Abs(a.floor - b.floor) > 0 THEN 0 ELSE calculateDistance(a.coords, b.coords)

\* calculateTotalDistanceWithElevators(nodes)
calculateTotalDistanceWithElevators(nodes) ==
    SumSeq([i \in 1..(Len(nodes) - 1) |->
                LegVertical(nodes[i], nodes[i + 1]) + LegHorizontal(nodes[i], nodes[i + 1])])

\* A number num / den; NaN is 0 / 0.
Ratio(num, den) == <<num, den>>
NaN == Ratio(0, 0)

\* a + (b - a) * r for integers a, b and a ratio r.
Lerp(a, b, r) == IF r[2] = 0 THEN NaN ELSE Ratio(a * r[2] + (b - a) * r[1], r[2])

\* The for loop of getNavPointAtDistanceWithElevators from leg i on, d being the
\* distance of the legs before it; dist is a ratio.
RECURSIVE NavPointFrom(_, _, _, _)
NavPointFrom(i, nodes, d, dist) ==
    IF i > Len(nodes) - 1
    THEN [coords |-> Ratio(nodes[Len(nodes)].coords, 1),
          floor |-> Ratio(nodes[Len(nodes)].floor, 1)]
    ELSE LET segD == LegVertical(nodes[i], nodes[i + 1])
                     + LegHorizontal(nodes[i], nodes[i + 1])
         IN  IF (d + segD) * dist[2] >= dist[1]
             THEN LET r == Ratio(dist[1] - d * dist[2], segD * dist[2])
                  IN  [coords |-> Lerp(nodes[i].coords, nodes[i + 1].coords, r),
                       floor |-> Lerp(nodes[i].floor, nodes[i + 1].floor, r)]
             ELSE NavPointFrom(i + 1, nodes, d + segD, dist)

getNavPointAtDistanceWithElevators(nodes, dist) == NavPointFrom(1, nodes, 0, dist)

\* navPoint of animate(timestamp), elapsed being timestamp - startTime.
animate(pathNodes, elapsed) ==
    LET totalDist == calculateTotalDistanceWithElevators(pathNodes)
        currentDist == IF elapsed > LoopMs THEN Ratio(0, LoopMs)
                       ELSE Ratio(elapsed * totalDist, LoopMs)
    IN  getNavPointAtDistanceWithElevators(pathNodes, currentDist)

\* ------------------------------------------------------------------ navigation session

g_atrium == <<"g","_","a","t","r","i","u","m">>
g_lift == <<"g","_","l","i","f","t">>
elevator == <<"e","l","e","v","a","t","o","r">>
f1_cafe == <<"f","1","_","c","a","f","e">>
f2_booknook == <<"f","2","_","b","o","o","k","n","o","o","k">>
f3_hall == <<"f","3","_","h","a","l","l">>
f3_skydeck == <<"f","3","_","s","k","y","d","e","c","k">>
name_Sky_Deck == <<"S","k","y"," ","D","e","c","k">>

\* The navigation graph of the session: the ground floor, the elevator shaft
\* (floor -1), the first floor, a second-floor node no edge reaches, and a third
\* floor of two nodes. Coordinates are metres along the corridor axis.
SessionGraph ==
    [nodes |-> <<[id |-> g_atrium, floor |-> 0, coords |-> 0],
                 [id |-> g_lift, floor |-> 0, coords |-> 3],
                 [id |-> elevator, floor |-> -1, coords |-> 4],
                 [id |-> f1_cafe, floor |-> 1, coords |-> 7],
                 [id |-> f2_booknook, floor |-> 2, coords |-> 9],
                 [id |-> f3_hall, floor |-> 3, coords |-> 5],
                 [id |-> f3_skydeck, floor |-> 3, coords |-> 8]>>,
     edges |-> <<<<g_atrium, g_lift>>, <<g_lift, elevator>>, <<elevator, f1_cafe>>,
                 <<elevator, f3_hall>>, <<f3_hall, f3_skydeck>>>>]

\* The features of the session: the building and a room on a third floor.
SessionBuilding ==
    Building \o <<[id |-> 8, name |-> name_Sky_Deck, level |-> 3, category |-> "store"]>>

\* Values of the two dropdowns: the placeholder option and location names.
NavInputs == {<<>>, name_Atrium, name_Cafe, name_Book_Nook, name_Sky_Deck}

\* Floors setFloor is called with (buttons and keys 0, 1, 2).
FloorButtons == {0, 1, 2}

InitNav ==
    /\ navGraph = SessionGraph
    /\ floorplanData = SessionBuilding
    /\ pc = "idle"
    /\ IdlePath /\ IdleFilter /\ IdleNav /\ IdleDraw

\* The state clearNavigationPath leaves, given the callbacks and animationId it finds.
\* (Feature-state highlight is not touched.)
clearNavigationPath(callbacks, id) ==
    LET u == updateFloorFilter(Scalar(activeBtn), <<>>, FALSE, <<>>)
    IN  [sources |-> mapSources \ ClearedSources,
         pending |-> CancelCurrent(callbacks, id),
         filter |-> u.filter, shown |-> u.shown]

\* calculateNavigation returns after the given alert: nothing is drawn or changed.
NavigateRejected(alert) ==
    /\ lastOp' = alert
    /\ UNCHANGED <<roomFilter, markerShown, filterArgs, navigationMarkers, mapSources,
                   highlighted, activeBtn, route, animationId, pending, nextHandle,
                   routeCount, instructions, drawArgs>>

\* The rest of calculateNavigation once a path is found: drawAnimatedPath, the
\* filter of the start floor, the highlights.
NavigateDrawn(from, to, pathNodes) ==
    LET fromFeature == floorplanData[FindFeatureByName(from)]
        toFeature == floorplanData[FindFeatureByName(to)]
        cleared == clearNavigationPath(CancelCurrent(pending, animationId), NoHandle)
    IN  /\ animationId' = NoHandle
        /\ routeCount' = routeCount + 1
        /\ activeBtn' = activeBtn
        /\ instructions' = Instructions(from, to, fromFeature.level, toFeature.level,
                                        pathNodes)
        /\ IF SourceClash(pathNodes, cleared.sources)
           THEN \* addSource throws: the handler ends inside drawAnimatedPath
                LET u == updateFloorFilter(Scalar(activeBtn), <<>>, TRUE, <<>>)
                IN  /\ mapSources' = cleared.sources
                                     \cup SourcesBeforeClash(pathNodes, cleared.sources)
                    /\ navigationMarkers' = <<>>
                    /\ pending' = cleared.pending
                    /\ nextHandle' = nextHandle
                    /\ roomFilter' = u.filter /\ markerShown' = u.shown
                    /\ highlighted' = highlighted
                    /\ route' = NoRoute
                    /\ lastOp' = "navigateThrow"
           ELSE LET markers == NavMarkersFor(pathNodes)
                    u == updateFloorFilter(Array(<<fromFeature.level>>),
                                           <<toFeature.id, fromFeature.id>>, TRUE,
                                           markers)
                IN  /\ mapSources' = cleared.sources \cup RouteSources(pathNodes)
                    /\ navigationMarkers' = markers
                    /\ pending' = cleared.pending
                                  \cup {[handle |-> nextHandle, route |-> routeCount + 1]}
                    /\ nextHandle' = nextHandle + 1
                    /\ roomFilter' = u.filter /\ markerShown' = u.shown
                    /\ highlighted' = highlighted \cup {fromFeature.id, toFeature.id}
                    /\ route' = [shown |-> TRUE, n |-> routeCount + 1,
                                 fromId |-> fromFeature.id, toId |-> toFeature.id,
                                 fromLevel |-> fromFeature.level,
                                 nodes |-> pathNodes]
                    /\ lastOp' = "navigate"
        /\ UNCHANGED <<filterArgs, drawArgs>>

\* The alert calculateNavigation raises before it searches, "none" when it goes on
\* to findPath.
AlertBeforeSearch_SameAllowed(from, to) ==
    IF from = <<>> \/ to = <<>> THEN "alertSelectBoth"
    ELSE IF FindFeatureByName(from) = 0 \/ FindFeatureByName(to) = 0
         THEN "alertNotFound"
         ELSE "none"

AlertBeforeSearch(from, to) ==
    IF from = <<>> \/ to = <<>> THEN "alertSelectBoth"
    ELSE IF from = to THEN "alertSame"
    ELSE IF FindFeatureByName(from) = 0 \/ FindFeatureByName(to) = 0
         THEN "alertNotFound"
         ELSE "none"

\* A click on the navigate button: calculateNavigation on the dropdown values.
CalculateNavigation ==
    /\ \E from \in NavInputs, to \in NavInputs :
          LET alert == AlertBeforeSearch(from, to)
          IN  IF alert /= "none" THEN NavigateRejected(alert)
              ELSE LET pathNodes == findPath(from, to)
                   IN  IF ~pathNodes.found THEN NavigateRejected("alertNoPath")
                       ELSE /\ nextHandle <= MaxHandle /\ routeCount < MaxRoutes
                            /\ NavigateDrawn(from, to, pathNodes.nodes)
    /\ UNCHANGED <<pc, dataVars, pathVars>>

\* The close button or Escape: clearNavigationPath.
ClearNavigationPath ==
    /\ LET cleared == clearNavigationPath(pending, animationId)
       IN  /\ mapSources' = cleared.sources
           /\ pending' = cleared.pending
           /\ roomFilter' = cleared.filter /\ markerShown' = cleared.shown
    /\ navigationMarkers' = <<>>
    /\ animationId' = NoHandle
    /\ route' = NoRoute
    /\ instructions' = <<>>
    /\ lastOp' = "clear"
    /\ UNCHANGED <<pc, dataVars, pathVars, filterArgs, highlighted, activeBtn, nextHandle,
                   routeCount, drawArgs>>

\* A floor button or key: setFloor(floor).
SetFloor ==
    /\ \E floor \in FloorButtons :
          LET u == updateFloorFilter(Scalar(floor), <<>>, FALSE, navigationMarkers)
          IN  /\ activeBtn' = floor
              /\ roomFilter' = u.filter /\ markerShown' = u.shown
    /\ lastOp' = "setFloor"
    /\ UNCHANGED <<pc, dataVars, pathVars, filterArgs, navigationMarkers, mapSources,
                   highlighted, route, animationId, pending, nextHandle, routeCount,
                   instructions, drawArgs>>

\* The browser runs a scheduled animate callback: it draws the avatar and requests
\* the next frame, or throws on the avatar source that clearNavigationPath removed.
AnimationFrame ==
    /\ \E cb \in pending :
          IF AvatarBodySource \in mapSources /\ AvatarHeadSource \in mapSources
          THEN /\ nextHandle <= MaxHandle
               /\ pending' = (pending \ {cb})
                             \cup {[handle |-> nextHandle, route |-> cb.route]}
               /\ animationId' = nextHandle
               /\ nextHandle' = nextHandle + 1
               /\ lastOp' = "frame"
          ELSE /\ pending' = pending \ {cb}
               /\ lastOp' = "frameThrow"
               /\ UNCHANGED <<animationId, nextHandle>>
    /\ UNCHANGED <<pc, dataVars, pathVars, filterVars, navigationMarkers, mapSources,
                   highlighted, activeBtn, route, routeCount, instructions, drawArgs>>

NextNav == CalculateNavigation \/ ClearNavigationPath \/ SetFloor \/ AnimationFrame

SpecNav == InitNav /\ [][NextNav]_vars

\* ------------------------------------------------------------------ claims on the session

\* C7: under every interleaving of navigation requests, clear requests and frame
\* callbacks, at most one animation loop is active: never more than one animate
\* callback is scheduled.
C7_AtMostOneAnimationLoop == Cardinality(pending) <= 1

\* C8: after clearNavigationPath returns, no animate callback is still scheduled and
\* animationId is null.
C8_ClearCancelsAnimation ==
    lastOp = "clear" => (pending = {} /\ animationId = NoHandle)

\* The feature with the given id.
FeatureById(id) == floorplanData[CHOOSE i \in DOMAIN floorplanData : floorplanData[i].id = id]

\* The elevator-hide flag is in effect: the filter hides the elevator shaft.
ElevatorHidden == \A f \in Features : f.category = "elevator" => ~Shows(roomFilter, f)

\* C10: while a route is displayed, setFloor events included, the destination room
\* is visible and the elevator stays hidden.
C10_RouteKeepsDestinationVisible ==
    route.shown => (Shows(roomFilter, FeatureById(route.toId)) /\ ElevatorHidden)

\* ------------------------------------------------------------------ route functions on generated paths

\* Largest number of nodes of a generated path.
MaxPathLen == 4

\* Metres between consecutive nodes of a generated path.
CorridorStep == 3

\* Floors of the nodes of a generated path (-1 marks a transition node).
PathFloors == {-1, 0, 1, 2}

\* Levels of the start and destination features.
EndpointLevels == {-1, 0, 1, 2}

\* timestamp - startTime of the frames observed, in milliseconds.
Elapsed == {0, LoopMs \div 2, LoopMs, LoopMs + 16}

\* The path over the given floors, as findPath returns it.
GeneratedPath(floors) ==
    [i \in 1..Len(floors) |->
        [id |-> <<"n", Digits[i + 1]>>, floor |-> floors[i],
         coords |-> CorridorStep * (i - 1), defined |-> TRUE]]

InitRoute ==
    /\ navGraph = [nodes |-> <<>>, edges |-> <<>>]
    /\ floorplanData = <<>>
    /\ pc = "idle"
    /\ IdlePath /\ IdleFilter /\ IdleNav
    /\ \E n \in 1..MaxPathLen : \E floors \in [1..n -> PathFloors] :
          drawArgs = [pathNodes |-> GeneratedPath(floors)]

\* The segmentation of drawAnimatedPath on the path.
SegmentCall ==
    /\ pc = "idle"
    /\ pc' = "segmented"
    /\ result' = SegmentPath(drawArgs.pathNodes)
    /\ UNCHANGED <<dataVars, fromName, toName, fromNode, toNode, queue, visited,
                   filterVars, navVars>>

\* The instruction list and the estimate of calculateNavigation for the path and
\* the levels of the two endpoint features.
InstructionsCall ==
    /\ pc = "idle"
    /\ pc' = "instructed"
    /\ \E fromLevel \in EndpointLevels, toLevel \in EndpointLevels :
          result' = [fromLevel |-> fromLevel, toLevel |-> toLevel,
                     walkingTime |-> walkingTime(drawArgs.pathNodes, fromLevel, toLevel),
                     instructions |-> Instructions(name_Atrium, name_Cafe, fromLevel,
                                                   toLevel, drawArgs.pathNodes)]
    /\ UNCHANGED <<dataVars, fromName, toName, fromNode, toNode, queue, visited,
                   filterVars, navVars>>

\* totalDist of drawAnimatedPath.
DistanceCall ==
    /\ pc = "idle"
    /\ pc' = "measured"
    /\ result' = [totalDist |-> calculateTotalDistanceWithElevators(drawArgs.pathNodes)]
    /\ UNCHANGED <<dataVars, fromName, toName, fromNode, toNode, queue, visited,
                   filterVars, navVars>>

\* One frame of the animation of the path.
AnimateCall ==
    /\ pc = "idle"
    /\ pc' = "animated"
    /\ \E elapsed \in Elapsed :
          result' = [elapsed |-> elapsed, navPoint |-> animate(drawArgs.pathNodes, elapsed)]
    /\ UNCHANGED <<dataVars, fromName, toName, fromNode, toNode, queue, visited,
                   filterVars, navVars>>

RouteReturn ==
    /\ pc \in {"segmented", "instructed", "measured", "animated"}
    /\ pc' = "idle"
    /\ result' = NotFound
    /\ UNCHANGED <<dataVars, fromName, toName, fromNode, toNode, queue, visited,
                   filterVars, navVars>>

NextRoute == SegmentCall \/ InstructionsCall \/ DistanceCall \/ AnimateCall \/ RouteReturn

SpecRoute == InitRoute /\ [][NextRoute]_vars

\* ------------------------------------------------------------------ claims on the route functions

\* Floors of the nodes of the path, in order.
FloorsOf(pathNodes) == [i \in 1..Len(pathNodes) |-> pathNodes[i].floor]

\* The concrete floors (not -1) of the path, in order.
ConcreteFloors(pathNodes) == SelectSeq(FloorsOf(pathNodes), LAMBDA f : f /= -1)

\* The changes of concrete floor along the path: pairs <<from, to>> of consecutive
\* unequal concrete floors, in path order.
FloorChanges(pathNodes) ==
    LET c == ConcreteFloors(pathNodes)
        at == SelectSeq([i \in 1..(Len(c) - 1) |-> i], LAMBDA i : c[i] /= c[i + 1])
    IN  [k \in 1..Len(at) |-> <<c[at[k]], c[at[k] + 1]>>]

\* C11: the estimated time is ceil(distance / 1.4 + |toLevel - fromLevel| * 45)
\* seconds, the levels being those of the endpoint features: the least whole number
\* of seconds t with 1.4 * t >= distance + 1.4 * 45 * |toLevel - fromLevel|,
\* whatever floors the path passes.
C11_EstimateFromEndpointLevels ==
    pc = "instructed" =>
        LET distance == CorridorStep * (Len(drawArgs.pathNodes) - 1)
            x == 10 * distance + 14 * 45 * Abs(result.toLevel - result.fromLevel)
            t == result.walkingTime
        IN  14 * t >= x /\ 14 * (t - 1) < x

\* An estimate without penalty for a path that changes floor three times between
\* endpoints of equal level.
C11_Witness ==
    /\ pc = "instructed"
    /\ result.fromLevel = result.toLevel
    /\ Len(FloorChanges(drawArgs.pathNodes)) = 3
    /\ result.walkingTime = 7

\* Two sampled points have the same coordinates and the same floor (NaN equals
\* nothing).
SameRatio(a, b) == a[2] /= 0 /\ b[2] /= 0 /\ a[1] * b[2] = b[1] * a[2]
SamePoint(p, q) == SameRatio(p.coords, q.coords) /\ SameRatio(p.floor, q.floor)

\* C12: the avatar position sampled at progress 1.0 (a frame LoopMs after the start
\* of the run) is the position sampled at progress 0.0: same coordinates, same floor.
C12_LoopContinuity ==
    (pc = "animated" /\ result.elapsed = LoopMs)
        => SamePoint(result.navPoint, animate(drawArgs.pathNodes, 0))

\* C16: the vertical transitions of the segmenter are, in path order, the pairs
\* (from, to) of consecutive unequal concrete floors of the path: one per change of
\* concrete floor, none for floor -1 nodes between two nodes of one floor, none for
\* leading or trailing floor -1 nodes.
C16_TransitionsAreFloorChanges ==
    pc = "segmented" =>
        [k \in DOMAIN result.verticalTransitions |->
            <<result.verticalTransitions[k].from, result.verticalTransitions[k].to>>]
        = FloorChanges(drawArgs.pathNodes)

\* A path that returns to the first floor through a floor -1 node and then changes
\* floor: one transition.
C16_Witness ==
    /\ pc = "segmented"
    /\ FloorsOf(drawArgs.pathNodes) = <<1, -1, 1, 2>>
    /\ Len(result.verticalTransitions) = 1
    /\ result.verticalTransitions[1].from = 1 /\ result.verticalTransitions[1].to = 2

\* The floor a node is rendered on: its own concrete floor, for a floor -1 node the
\* floor of the most recent concrete-floor node before it (-1 when there is none).
EffectiveFloor(pathNodes, i) ==
    LET before == {j \in 1..i : pathNodes[j].floor /= -1}
    IN  IF before = {} THEN -1
        ELSE pathNodes[CHOOSE j \in before : \A k \in before : k <= j].floor

\* C17: the segmentation places every node of the path in exactly one per-floor
\* segment, in path order: a concrete-floor node in the segment of its floor, a
\* floor -1 node in the segment of the most recent concrete-floor node before it;
\* no node is left out, floor -1 nodes at the start of the path included.
C17_EveryNodeInOneSegment ==
    pc = "segmented" =>
        LET p == drawArgs.pathNodes
            seg == result.segments
        IN  /\ \A f \in DOMAIN seg :
                  seg[f] = LET at == SelectSeq([i \in 1..Len(p) |-> i],
                                               LAMBDA i : EffectiveFloor(p, i) = f)
                           IN  [k \in 1..Len(at) |-> p[at[k]].id]
            /\ \A i \in 1..Len(p) :
                  Cardinality({<<f, k>> \in UNION {{f} \X DOMAIN seg[f] : f \in DOMAIN seg} :
                                  seg[f][k] = p[i].id}) = 1

\* C18: in the animation distance model each floor crossed costs 4 metres: the part
\* of calculateTotalDistanceWithElevators that is not horizontal distance is 4 times
\* the sum of |from - to| over the vertical transitions of the path, also when a
\* floor change passes through floor -1 nodes.
C18_FourMetresPerFloorCrossed ==
    pc = "measured" =>
        LET p == drawArgs.pathNodes
            horizontal == SumSeq([i \in 1..(Len(p) - 1) |-> LegHorizontal(p[i], p[i + 1])])
            changes == FloorChanges(p)
        IN  result.totalDist - horizontal
            = 4 * SumSeq([k \in DOMAIN changes |-> Abs(changes[k][1] - changes[k][2])])

\* C19: the instruction list is one start entry, one "Take Elevator" entry per
\* vertical transition the segmenter detects on the same path (direction up iff
\* the new floor is higher than the previous one), one arrival entry and one time
\* entry, whatever the floor of the first path node and the level of the start feature.
C19_ElevatorEntryPerTransition ==
    pc = "instructed" =>
        LET ins == result.instructions
            vt == SegmentPath(drawArgs.pathNodes).verticalTransitions
        IN  /\ Len(ins) = Len(vt) + 3
            /\ ins[1].kind = "start"
            /\ \A k \in DOMAIN vt :
                  /\ ins[k + 1].kind = "elevator"
                  /\ ins[k + 1].text
                       = <<IF vt[k].to > vt[k].from THEN "up" ELSE "down", vt[k].to>>
            /\ ins[Len(ins) - 1].kind = "arrive"
            /\ ins[Len(ins)].kind = "time"

\* ------------------------------------------------------------------ claims on rejected and repeated requests

\* The alerts of calculateNavigation: each is followed by a return.
Alerts == {"alertSelectBoth", "alertSame", "alertNotFound", "alertNoPath"}

\* C13: a request that ends in an alert (empty or equal selection, a name without a
\* feature, no path) starts and cancels no animation and leaves the route sources,
\* the navigation markers, the filter, the marker visibility and the highlights as
\* they were; an empty or equal selection is answered by the alerts that precede
\* the call of findPath.
C13_RejectedRequestChangesNothing ==
    [][/\ lastOp' \in Alerts =>
            UNCHANGED <<mapSources, navigationMarkers, roomFilter, markerShown,
                        highlighted, route, pending, animationId, nextHandle>>
       /\ \A from \in NavInputs, to \in NavInputs :
            (from = <<>> \/ to = <<>> \/ from = to)
                => AlertBeforeSearch(from, to) \in {"alertSelectBoth", "alertSame"}]_vars

\* A request was rejected for want of a path while a route was displayed and its
\* animation scheduled.
C13_Witness ==
    /\ lastOp = "alertNoPath"
    /\ route.shown /\ pending /= {}
    /\ navigationMarkers /= <<>> /\ highlighted /= {}

RNum(n) == [t |-> "number", n |-> n, s |-> <<>>, b |-> FALSE]
RStr(s) == [t |-> "string", n |-> 0, s |-> s, b |-> FALSE]
RBool(b) == [t |-> "boolean", n |-> 0, s |-> <<>>, b |-> b]
RNull == [t |-> "null", n |-> 0, s |-> <<>>, b |-> FALSE]
RNaN == [t |-> "NaN", n |-> 0, s |-> <<>>, b |-> FALSE]
Undefined == [t |-> "undefined", n |-> 0, s |-> <<>>, b |-> FALSE]

RECURSIVE TrimLeft(_)
TrimLeft(s) == IF s /= <<>> /\ Head(s) = " " THEN TrimLeft(Tail(s)) ELSE s

RECURSIVE TrimRight(_)
TrimRight(s) ==
    IF s /= <<>> /\ s[Len(s)] = " " THEN TrimRight(SubSeq(s, 1, Len(s) - 1)) ELSE s

\* Value of a string of decimal digits.
RECURSIVE DigitsValue(_)
DigitsValue(s) ==
    IF s = <<>> THEN 0
    ELSE 10 * DigitsValue(SubSeq(s, 1, Len(s) - 1))
         + (CHOOSE d \in 0..9 : Digits[d + 1] = s[Len(s)])

IsDigitString(s) == s /= <<>> /\ \A i \in DOMAIN s : s[i] \in DigitSet

\* Number(string): the trimmed string read as a decimal integer, 0 when it is
\* empty, NaN when it is anything else.
StringToNumber(s) ==
    LET t == TrimRight(TrimLeft(s))
    IN  IF t = <<>> THEN RNum(0)
        ELSE IF IsDigitString(t) THEN RNum(DigitsValue(t))
        ELSE IF Head(t) = "-" /\ IsDigitString(Tail(t)) THEN RNum(-DigitsValue(Tail(t)))
        ELSE RNaN

\* Number(x)
Number(x) ==
    CASE x.t = "number" -> x
      [] x.t = "NaN" -> RNaN
      [] x.t = "boolean" -> RNum(IF x.b THEN 1 ELSE 0)
      [] x.t = "null" -> RNum(0)
      [] x.t = "undefined" -> RNaN
      [] x.t = "string" -> StringToNumber(x.s)

\* x == null
IsNullish(x) == x.t \in {"null", "undefined"}

\* (raw == null) ? default : Number(raw), then the default if that is NaN.
NumberOrDefault(raw, default) ==
    LET n == IF IsNullish(raw) THEN RNum(default) ELSE Number(raw)
    IN  IF n.t = "NaN" THEN default ELSE n.n

\* The map callback of addFloorplanLayers on the feature at the given index.
Preprocess(feature, index) ==
    LET prop(name) == IF feature.hasProperties THEN feature.properties[name]
                      ELSE Undefined
    IN  [id |-> index,
         name |-> IF prop("name").t = "string" THEN prop("name").s ELSE Null,
         height |-> NumberOrDefault(prop("height"), 3),
         base_height |-> NumberOrDefault(prop("base_height"), 0),
         level |-> NumberOrDefault(prop("level"), 0),
         category |-> IF IsNullish(prop("category")) THEN "common"
                      ELSE prop("category").s[1]]

\* Raw values of height, base_height and level in the loaded file.
RawValues ==
    {Undefined, RNull, RNum(0), RNum(5), RStr(<<"1", "2">>), RStr(<<>>),
     RStr(<<"t", "a", "l", "l">>), RStr(<<" ", "-", "2">>), RBool(TRUE), RBool(FALSE)}

\* A raw feature: one without properties, or one with any raw values (a category
\* name is kept whole, as the one element of its string).
RawFeatures ==
    {[hasProperties |-> FALSE,
      properties |-> [name |-> Undefined, height |-> Undefined,
                      base_height |-> Undefined, level |-> Undefined,
                      category |-> Undefined]]}
    \cup {[hasProperties |-> TRUE,
           properties |-> [name |-> RStr(name_Atrium), height |-> h, base_height |-> b,
                           level |-> l, category |-> RStr(<<"store">>)]] :
            h \in RawValues, b \in RawValues, l \in RawValues}

\* The data as loaded, before the map has been set up.
InitPreprocess ==
    /\ navGraph = [nodes |-> <<>>, edges |-> <<>>]
    /\ \E f \in RawFeatures : floorplanData = <<f>>
    /\ pc = "raw"
    /\ IdlePath /\ IdleNav /\ IdleDraw
    /\ roomFilter = NullFilter /\ markerShown = [store |-> <<>>, nav |-> <<>>]
    /\ filterArgs = NoFilterArgs

\* addFloorplanLayers: the features are preprocessed, the labels added and the
\* filter of the ground floor set.
AddFloorplanLayers ==
    /\ pc = "raw"
    /\ pc' = "loaded"
    /\ floorplanData' = [i \in DOMAIN floorplanData |-> Preprocess(floorplanData[i], i - 1)]
    /\ roomFilter' = (updateFloorFilter(Scalar(0), <<>>, FALSE, <<>>).filter)'
    /\ markerShown' = (updateFloorFilter(Scalar(0), <<>>, FALSE, <<>>).shown)'
    /\ UNCHANGED <<navGraph, pathVars, filterArgs, navVars>>

\* A click on a floor button once the map is loaded.
SetFloorLoaded ==
    /\ pc = "loaded"
    /\ \E floor \in FloorButtons :
          LET u == updateFloorFilter(Scalar(floor), <<>>, FALSE, navigationMarkers)
          IN  /\ activeBtn' = floor
              /\ roomFilter' = u.filter /\ markerShown' = u.shown
    /\ lastOp' = "setFloor"
    /\ UNCHANGED <<pc, dataVars, pathVars, filterArgs, navigationMarkers, mapSources,
                   highlighted, route, animationId, pending, nextHandle, routeCount,
                   instructions, drawArgs>>

NextPreprocess == AddFloorplanLayers \/ SetFloorLoaded

SpecPreprocess == InitPreprocess /\ [][NextPreprocess]_vars

\* ------------------------------------------------------------------ claims on preprocessing

\* A raw value is numeric: a number, or a string that spells one.
IsNumericRaw(raw) ==
    \/ raw.t = "number"
    \/ raw.t = "string" /\ TrimRight(TrimLeft(raw.s)) /= <<>>
       /\ StringToNumber(raw.s).t = "number"

\* The number a property is to hold after preprocessing: the numeric raw value, the
\* default for a raw value that is absent or not numeric.
ResolvedNumber(raw, default) ==
    IF IsNumericRaw(raw) THEN Number(raw).n ELSE default

\* The raw value of a property of a raw feature.
RawProp(feature, name) ==
    IF feature.hasProperties THEN feature.properties[name] ELSE Undefined

\* C15: addFloorplanLayers leaves every feature, also one without properties, with
\* numbers for height, base_height and level: the numeric raw value, and the default
\* (3, 0, 0) when the raw value is absent or not numeric (a non-numeric string, the
\* empty string, a boolean).
C15_NumericDefaults ==
    [][(pc = "raw" /\ pc' = "loaded") =>
          /\ Len(floorplanData') = Len(floorplanData)
          /\ \A i \in DOMAIN floorplanData :
                /\ floorplanData'[i].height
                     = ResolvedNumber(RawProp(floorplanData[i], "height"), 3)
                /\ floorplanData'[i].base_height
                     = ResolvedNumber(RawProp(floorplanData[i], "base_height"), 0)
                /\ floorplanData'[i].level
                     = ResolvedNumber(RawProp(floorplanData[i], "level"), 0)]_vars

\* ------------------------------------------------------------------ claims on shafts, runs and sampled floors

\* Positions in the path of its concrete-floor nodes, in order.
ConcreteAt(pathNodes) ==
    SelectSeq([i \in 1..Len(pathNodes) |-> i], LAMBDA i : pathNodes[i].floor /= -1)

\* For each change of concrete floor, the positions <<a, b>> of the two
\* concrete-floor nodes it lies between, in path order.
ChangeAt(pathNodes) ==
    LET c == ConcreteAt(pathNodes)
        at == SelectSeq([j \in 1..(Len(c) - 1) |-> j],
                        LAMBDA j : pathNodes[c[j]].floor /= pathNodes[c[j + 1]].floor)
    IN  [k \in 1..Len(at) |-> <<c[at[k]], c[at[k] + 1]>>]

\* C21: the shaft coordinates of every vertical transition are those of a floor -1
\* node lying in the path between the two concrete-floor nodes of the transition,
\* or, when there is none, those of the first node on the new floor; a floor -1
\* node passed earlier is never used.
C21_ShaftBetweenItsFloors ==
    pc = "segmented" =>
        LET p == drawArgs.pathNodes
            vt == result.verticalTransitions
            ch == ChangeAt(p)
        IN  /\ Len(vt) = Len(ch)
            /\ \A k \in DOMAIN vt :
                  LET between == {i \in (ch[k][1] + 1)..(ch[k][2] - 1) : p[i].floor = -1}
                  IN  IF between = {} THEN vt[k].coords = p[ch[k][2]].id
                      ELSE \E i \in between : vt[k].coords = p[i].id

\* Position in the path of the node with the given id.
PositionOf(pathNodes, id) == CHOOSE i \in DOMAIN pathNodes : pathNodes[i].id = id

\* C22: each per-floor segment is one run of consecutive path nodes: two coordinates
\* adjacent in a segment belong to nodes adjacent in the path, also when the path
\* leaves a floor and returns to it.
C22_SegmentIsOneRun ==
    pc = "segmented" =>
        \A f \in DOMAIN result.segments :
            \A k \in 1..(Len(result.segments[f]) - 1) :
                PositionOf(drawArgs.pathNodes, result.segments[f][k + 1])
                = PositionOf(drawArgs.pathNodes, result.segments[f][k]) + 1

\* C23: for a path whose first and last nodes have concrete floors, the floor of
\* the sampled avatar position lies between the lowest and the highest concrete
\* floor of the path, at every distance from 0 to the total animation distance.
C23_SampledFloorWithinPathFloors ==
    LET p == drawArgs.pathNodes
    IN  (pc = "animated" /\ p[1].floor /= -1 /\ p[Len(p)].floor /= -1) =>
            LET floors == Range(ConcreteFloors(p))
                floor == result.navPoint.floor
            IN  \A lo \in floors, hi \in floors :
                    ((\A g \in floors : lo <= g /\ g <= hi)
                        => (lo * floor[2] <= floor[1] /\ floor[1] <= hi * floor[2]))

\* ------------------------------------------------------------------ claims on labels and highlights

\* C24: after updateFloorFilter with a concrete floor selection, the label marker of
\* every labelled feature is displayed if and only if the feature passes the
\* room-extrusion filter, for every id (0 included), every category (elevator
\* included) and both values of hideElevator.
C24_LabelShownIffFeatureShown ==
    (Returned /\ ~ArgIsAll) =>
        \A i \in DOMAIN storeMarkers :
            markerShown.store[i] <=> Shows(roomFilter, FeatureById(storeMarkers[i].id))

\* C25: after any sequence of navigation and clear requests the highlighted features
\* are the endpoints of the displayed route: none after clearNavigationPath, the new
\* start and destination only after a new navigation.
C25_HighlightFollowsRoute ==
    /\ lastOp = "clear" => highlighted = {}
    /\ lastOp = "navigate" => highlighted = {route.fromId, route.toId}

====
